---- MODULE Spec2Model ----
(***************************************************************************)
(* DrSax: a SAX-event driven HTML to Markdown renderer (lib/drsax.js with  *)
(* the default dialect of dialect.js, or with the dialect it is given).    *)
(*                                                                         *)
(* JavaScript strings are TLA+ strings, JavaScript arrays are sequences.   *)
(* The value `undefined` is the string "undefined", which is also what     *)
(* JavaScript's string concatenation turns it into (undefined + 'li').     *)
(* this.tag holds a reference to an entry of this.tagTable, which nothing  *)
(* changes after the constructor; the model holds the entry's key.         *)
(***************************************************************************)
EXTENDS Integers, Sequences, FiniteSets, TLC

VARIABLES
  stack,        \* this.stack: the output fragments
  splicePos,    \* this.splicePos
  spliceStack,  \* this.spliceStack
  listStack,    \* this.listStack
  trimNL,       \* this.trimNL
  tagStack,     \* this.tagStack
  ignoreClose,  \* this.ignoreClose
  indentStack,  \* this.indentStack
  tag,          \* this.tag (key of the tag table entry, or Undefined)
  tagTable,     \* this.tagTable
  options,      \* this.options
  threw,        \* the last call raised a TypeError
  pc,           \* where write() is: "idle", "parsing", "closing", "join"
  cur,          \* the local `tag` of _closeUnclosedTags
  markdown,     \* the string the last write() returned
  runs,         \* number of write() calls that have ended
  nev,          \* number of handler calls the parser or a caller has made
  evlog,        \* history: the events delivered in the current write()
  prev,         \* history: input and output of the last two write() calls
  endTags,      \* history: this.tagStack when the parser ended
  synth,        \* history: the names _closeUnclosedTags passed to onclosetag
  hist          \* history: the last handler call, the render state before it
                \* and the render state before the call preceding it

vars == <<stack, splicePos, spliceStack, listStack, trimNL, tagStack, ignoreClose,
          indentStack, tag, tagTable, options, threw, pc, cur, markdown, runs, nev,
          evlog, prev, endTags, synth, hist>>

Undefined == "undefined"

-----------------------------------------------------------------------------
(* Helpers of lib/ that drsax.js requires.                                 *)

last(arr) == IF Len(arr) = 0 THEN Undefined ELSE arr[Len(arr)]

RECURSIVE repeat(_, _)
repeat(str, n) == IF n <= 0 THEN "" ELSE str \o repeat(str, n - 1)

RECURSIVE rebuildAttrs(_)
rebuildAttrs(attrs) ==
  IF Len(attrs) = 0 THEN ""
  ELSE " " \o attrs[1][1] \o "=\"" \o attrs[1][2] \o "\"" \o rebuildAttrs(Tail(attrs))

rebuildTag(name, attrs, phase) ==
  IF phase = "open" THEN "<" \o name \o rebuildAttrs(attrs) \o ">"
  ELSE "</" \o name \o ">"

-----------------------------------------------------------------------------
(* JavaScript array and string primitives.                                 *)

\* Array.prototype.pop: the array afterwards (an empty array stays empty)
pop(arr) == IF Len(arr) = 0 THEN arr ELSE SubSeq(arr, 1, Len(arr) - 1)

\* Array.prototype.splice(pos, 0, item): pos beyond the end is clamped to the
\* end, a negative pos counts from the end and is clamped to the start
splice(arr, pos, item) ==
  LET p == IF pos > Len(arr) THEN Len(arr)
           ELSE IF pos >= 0 THEN pos
           ELSE IF Len(arr) + pos > 0 THEN Len(arr) + pos ELSE 0
  IN SubSeq(arr, 1, p) \o <<item>> \o SubSeq(arr, p + 1, Len(arr))

\* Array.prototype.join('')
RECURSIVE join(_)
join(arr) == IF Len(arr) = 0 THEN "" ELSE Head(arr) \o join(Tail(arr))

\* String.prototype.replace(/pat/g, rep): leftmost matches, left to right,
\* never rescanning what was just written
RECURSIVE replaceAll(_, _, _)
replaceAll(s, pat, rep) ==
  IF Len(s) < Len(pat) THEN s
  ELSE IF SubSeq(s, 1, Len(pat)) = pat
       THEN rep \o replaceAll(SubSeq(s, Len(pat) + 1, Len(s)), pat, rep)
       ELSE SubSeq(s, 1, 1) \o replaceAll(SubSeq(s, 2, Len(s)), pat, rep)

\* Object.keys(attrs).indexOf(key) !== -1, attrs an ordered list of <<key, value>>
hasKey(attrs, key) == \E i \in 1..Len(attrs) : attrs[i][1] = key

\* attrs[key]
valueOf(attrs, key) == attrs[CHOOSE i \in 1..Len(attrs) : attrs[i][1] = key][2]

-----------------------------------------------------------------------------
(* dialect.js: the default tag table.  A field the source leaves out is    *)
(* undefined there: block FALSE, indent "" (both falsy), attrs empty.      *)

TagSpec(open, close, block, indent, attrs) ==
  [open |-> open, close |-> close, block |-> block, indent |-> indent, attrs |-> attrs]

AttrSpec(key, open, close) == [key |-> key, open |-> open, close |-> close]

\* The backquote of the code and pre markers: a TLA+ string cannot hold that
\* character, so the model writes an apostrophe in its place.
BQ == "'"

TagNames ==
  {"b", "i", "img", "a", "blockquote", "code", "pre", "p", "ol", "ul", "olli",
   "ulli", "hr", "h1", "h2", "h3", "h4", "h5", "h6"}

defaultDialect ==
  [n \in TagNames |->
    CASE n = "b" -> TagSpec("**", "**", FALSE, "", <<>>)
      [] n = "i" -> TagSpec("*", "*", FALSE, "", <<>>)
      [] n = "img" -> TagSpec("!", "", FALSE, "",
                        <<AttrSpec("alt", "[", "]"), AttrSpec("src", "(", ")")>>)
      [] n = "a" -> TagSpec("", "", FALSE, "",
                        <<AttrSpec("text", "[", "]"), AttrSpec("href", "(", ")")>>)
      [] n = "blockquote" -> TagSpec("> ", "", TRUE, "> ", <<>>)
      [] n = "code" -> TagSpec(BQ \o BQ \o BQ \o "\n", "\n" \o BQ \o BQ \o BQ, TRUE, "", <<>>)
      [] n = "pre" -> TagSpec(BQ, BQ, FALSE, "", <<>>)
      [] n = "p" -> TagSpec("", "", TRUE, "", <<>>)
      [] n = "ol" -> TagSpec("", "", TRUE, "\t", <<>>)
      [] n = "ul" -> TagSpec("", "", TRUE, "\t", <<>>)
      [] n = "olli" -> TagSpec("1. ", "\n", FALSE, "", <<>>)
      [] n = "ulli" -> TagSpec("* ", "\n", FALSE, "", <<>>)
      [] n = "hr" -> TagSpec("- - -", "", TRUE, "", <<>>)
      [] n = "h1" -> TagSpec("# ", "\n", FALSE, "", <<>>)
      [] n = "h2" -> TagSpec("## ", "\n", FALSE, "", <<>>)
      [] n = "h3" -> TagSpec("### ", "\n", FALSE, "", <<>>)
      [] n = "h4" -> TagSpec("#### ", "\n", FALSE, "", <<>>)
      [] n = "h5" -> TagSpec("##### ", "\n", FALSE, "", <<>>)
      [] n = "h6" -> TagSpec("###### ", "\n", FALSE, "", <<>>)]

\* The table is a plain object: a name it does not define itself is looked up
\* on Object.prototype, whose members are these.
InheritedNames ==
  {"constructor", "__proto__", "hasOwnProperty", "isPrototypeOf",
   "propertyIsEnumerable", "toLocaleString", "toString", "valueOf",
   "__defineGetter__", "__defineSetter__", "__lookupGetter__", "__lookupSetter__"}

\* this.tagTable[name]: the key under which a value is found, or Undefined
lookup(s, name) ==
  IF name \in DOMAIN s.tagTable \/ name \in InheritedNames THEN name ELSE Undefined

\* the fields the handlers read of this.tagTable[t]; an inherited member is
\* truthy but has none of them: open and close are undefined, the rest falsy
entry(s, t) ==
  IF t \in DOMAIN s.tagTable THEN s.tagTable[t]
  ELSE TagSpec(Undefined, Undefined, FALSE, "", <<>>)

\* an options object: stripTags, and dialect, of which the constructor asks
\* whether it is an object before it takes it as the tag table
Options(stripTags, isObject, dialect) ==
  [stripTags |-> stripTags, dialect |-> [isObject |-> isObject, table |-> dialect]]

\* no options.dialect
DefaultOptions == Options(FALSE, FALSE, defaultDialect)

-----------------------------------------------------------------------------
(* The render state as one value, for the handlers to transform.           *)

State ==
  [stack |-> stack, splicePos |-> splicePos, spliceStack |-> spliceStack,
   listStack |-> listStack, trimNL |-> trimNL, tagStack |-> tagStack,
   ignoreClose |-> ignoreClose, indentStack |-> indentStack, tag |-> tag,
   tagTable |-> tagTable, options |-> options, threw |-> threw]

\* DrSax.prototype._init
init(s) ==
  [s EXCEPT !.stack = <<>>, !.splicePos = 0, !.spliceStack = <<>>, !.listStack = <<>>,
            !.trimNL = FALSE, !.tagStack = <<>>, !.ignoreClose = FALSE,
            !.indentStack = <<>>, !.tag = Undefined]

\* the constructor: new DrSax(opts); a dialect that is an object replaces the
\* default one
DrSax(opts) ==
  init([stack |-> <<>>, splicePos |-> 0, spliceStack |-> <<>>, listStack |-> <<>>,
        trimNL |-> FALSE, tagStack |-> <<>>, ignoreClose |-> FALSE,
        indentStack |-> <<>>, tag |-> Undefined,
        tagTable |-> IF opts.dialect.isObject THEN opts.dialect.table
                     ELSE defaultDialect,
        options |-> opts, threw |-> FALSE])

-----------------------------------------------------------------------------
(* DrSax.prototype.onopentag, statement by statement.  name is the         *)
(* effective name (the list item's name rewritten), s.tag its table key.   *)

\* this.tagStack.push(name); list containers also go on this.listStack
openPush(s, name) ==
  LET s1 == [s EXCEPT !.tagStack = Append(@, name)]
  IN IF name = "ol" \/ name = "ul" THEN [s1 EXCEPT !.listStack = Append(@, name)] ELSE s1

\* <code> directly inside <pre>: drop the recorded <pre> fragment
openCollapse(s, name) ==
  IF name = "code" /\ last(s.tagStack) = "pre"
  THEN [s EXCEPT !.ignoreClose = TRUE, !.stack = pop(@)]
  ELSE s

\* the separator as it would be without the look at the last fragment
openBlockSpacingUnchecked(s) ==
  IF entry(s, s.tag).block /\ Len(s.stack) > 0
  THEN IF Len(s.indentStack) = 0
       THEN [s EXCEPT !.stack = Append(@, "\n\n")]
       ELSE [s EXCEPT !.stack = Append(@, "\n")]
  ELSE s

\* the separator in front of a block level tag
openBlockSpacing(s) ==
  IF entry(s, s.tag).block /\ last(s.stack) # "\n\n" /\ Len(s.stack) > 0
  THEN IF Len(s.indentStack) = 0
       THEN [s EXCEPT !.stack = Append(@, "\n\n")]
       ELSE [s EXCEPT !.stack = Append(@, "\n")]
  ELSE s

\* the indent text of the innermost indenting tag, once per indent level;
\* reading .indent of a missing table entry is a TypeError
openIndentText(s) ==
  IF Len(s.indentStack) > 0
  THEN LET indentTag == lookup(s, last(s.indentStack))
       IN IF indentTag = Undefined THEN [s EXCEPT !.threw = TRUE]
          ELSE [s EXCEPT !.stack =
                  Append(@, repeat(entry(s, indentTag).indent, Len(s.indentStack)))]
  ELSE s

\* an indenting tag goes on this.indentStack unless exactly one list is open
openIndentPush(s, name) ==
  IF entry(s, s.tag).indent # "" /\ Len(s.listStack) # 1
  THEN [s EXCEPT !.indentStack = Append(@, name)]
  ELSE s

\* the open marker: spliced in while a tag defers its text, appended otherwise;
\* reading .length of an undefined marker is a TypeError
openMarker(s) ==
  IF entry(s, s.tag).open = Undefined THEN [s EXCEPT !.threw = TRUE]
  ELSE IF Len(entry(s, s.tag).open) > 0
  THEN IF Len(s.spliceStack) > 0
       THEN [s EXCEPT !.stack = splice(@, s.splicePos, entry(s, s.tag).open),
                      !.splicePos = @ + 1]
       ELSE [s EXCEPT !.stack = Append(@, entry(s, s.tag).open)]
  ELSE s

\* the turn as it would be without the check that the event has the attribute
openAttrUnchecked(s, name, attrs, a) ==
  LET s1 == [s EXCEPT !.stack = Append(@, a.open)]
      s2 == IF a.key = "text"
            THEN [s1 EXCEPT !.splicePos = Len(s1.stack),
                            !.spliceStack = Append(@, name)]
            ELSE [s1 EXCEPT !.stack =
                    Append(@, IF hasKey(attrs, a.key) THEN valueOf(attrs, a.key)
                              ELSE Undefined)]
  IN [s2 EXCEPT !.stack = Append(@, a.close)]

\* one turn of the loop over Object.keys(this.tag.attrs)
openAttr(s, name, attrs, a) ==
  LET s1 == [s EXCEPT !.stack = Append(@, a.open)]
      s2 == IF a.key = "text"
            THEN [s1 EXCEPT !.splicePos = Len(s1.stack),
                            !.spliceStack = Append(@, name)]
            ELSE IF hasKey(attrs, a.key)
                 THEN [s1 EXCEPT !.stack = Append(@, valueOf(attrs, a.key))]
                 ELSE s1
  IN [s2 EXCEPT !.stack = Append(@, a.close)]

RECURSIVE openAttrs(_, _, _, _)
openAttrs(s, name, attrs, keys) ==
  IF Len(keys) = 0 THEN s
  ELSE openAttrs(openAttr(s, name, attrs, Head(keys)), name, attrs, Tail(keys))

\* the branch of a tag the table maps
openMapped(s, name, attrs) ==
  LET s1 == openPush(s, name)
      s2 == openCollapse(s1, name)
      s3 == openBlockSpacing(s2)
      s4 == openIndentText(s3)
  IN IF s4.threw THEN s4
     ELSE LET s5 == openMarker(openIndentPush(s4, name))
          IN IF s5.threw THEN s5
             ELSE openAttrs(s5, name, attrs, entry(s, s.tag).attrs)

\* the branch of a tag the table does not map
openUnmapped(s, origName, attrs) ==
  IF ~s.options.stripTags
  THEN [s EXCEPT !.stack = Append(@, rebuildTag(origName, attrs, "open"))]
  ELSE s

\* the effective name of an open event: a list item takes its list's kind
openName(s, origName) ==
  IF origName = "li" THEN last(s.listStack) \o "li" ELSE origName

onopentag(s, origName, attrs) ==
  LET s1 == IF origName = "li" THEN [s EXCEPT !.trimNL = TRUE] ELSE s
      name == openName(s, origName)
      s2 == [s1 EXCEPT !.tag = lookup(s, name)]
  IN IF s2.tag # Undefined THEN openMapped(s2, name, attrs)
     ELSE openUnmapped(s2, origName, attrs)

-----------------------------------------------------------------------------
(* DrSax.prototype.ontext                                                  *)

\* this.text, which nothing ever assigns
thisText == Undefined

\* text.replace(/\n/g, '')
stripNL(text) == replaceAll(text, "\n", "")

\* /\n$/ on a fragment; on `undefined` (an empty stack) .match is a TypeError
endsInNL(frag) == Len(frag) > 0 /\ SubSeq(frag, Len(frag), Len(frag)) = "\n"

\* the open marker of a block level tag, put in front of the text again
textOpenMarker(s) ==
  \* (this.tag.close !== false holds of every entry: close is always a string)
  IF s.tag # Undefined /\ entry(s, s.tag).block /\ last(s.stack) # entry(s, s.tag).open
  THEN [s EXCEPT !.stack = Append(@, entry(s, s.tag).open)]
  ELSE s

\* the push as it would be without ++this.splicePos
textPushCursorStays(s, text) ==
  IF Len(s.spliceStack) > 0
  THEN [s EXCEPT !.stack = splice(@, s.splicePos, text)]
  ELSE IF s.trimNL THEN [s EXCEPT !.stack = Append(@, stripNL(text))]
       ELSE [s EXCEPT !.stack = Append(@, text)]

textPush(s, text) ==
  IF Len(s.spliceStack) > 0
  THEN [s EXCEPT !.stack = splice(@, s.splicePos, text), !.splicePos = @ + 1]
  ELSE IF s.trimNL THEN [s EXCEPT !.stack = Append(@, stripNL(text))]
       ELSE IF thisText = "\n"
            THEN IF Len(s.stack) = 0 THEN [s EXCEPT !.threw = TRUE]
                 ELSE IF endsInNL(last(s.stack))
                      THEN [s EXCEPT !.stack = Append(@, stripNL(text))]
                      ELSE [s EXCEPT !.stack = Append(@, text)]
            ELSE [s EXCEPT !.stack = Append(@, text)]

ontext(s, text) == textPush(textOpenMarker(s), text)

-----------------------------------------------------------------------------
(* DrSax.prototype.onclosetag                                              *)

\* the close marker, unless this close is ignored or the marker is empty;
\* reading .length of an undefined marker is a TypeError
closeMarker(s, t) ==
  IF ~s.ignoreClose /\ entry(s, t).close = Undefined THEN [s EXCEPT !.threw = TRUE]
  ELSE IF ~s.ignoreClose /\ Len(entry(s, t).close) > 0
  THEN IF Len(s.spliceStack) > 0
       THEN [s EXCEPT !.stack = splice(@, s.splicePos, entry(s, t).close)]
       ELSE [s EXCEPT !.stack = Append(@, entry(s, t).close)]
  ELSE s

closeIndent(s, t) ==
  IF entry(s, t).indent # "" THEN [s EXCEPT !.indentStack = pop(@)] ELSE s

\* the pop as it would be if it also put the cursor back to the start
closeSpliceResetsCursor(s, name) ==
  IF last(s.spliceStack) = name
  THEN [s EXCEPT !.spliceStack = pop(@), !.splicePos = 0]
  ELSE s

\* stop splicing once the tag that deferred its text is closed
closeSplice(s, name) ==
  IF last(s.spliceStack) = name THEN [s EXCEPT !.spliceStack = pop(@)] ELSE s

closeBlockSpacing(s, t) ==
  IF entry(s, t).block
  THEN IF Len(s.indentStack) < 1
       THEN [s EXCEPT !.stack = Append(@, "\n\n")]
       ELSE [s EXCEPT !.stack = Append(@, "\n")]
  ELSE s

\* pull the tag off this.tagStack, but only if it is the current tag
closePop(s, name) ==
  IF last(s.tagStack) = name THEN [s EXCEPT !.tagStack = pop(@)] ELSE s

closeMapped(s, name, t) ==
  LET s1 == closeMarker(s, t)
  IN IF s1.threw THEN s1
     ELSE closePop(closeBlockSpacing(closeSplice(closeIndent(s1, t), name), t), name)

closeUnmapped(s, origName) ==
  IF ~s.options.stripTags
  THEN [s EXCEPT !.stack = Append(@, rebuildTag(origName, <<>>, Undefined))]
  ELSE s

\* the effective name of a close event: a list item takes its list's kind
closeName(s, origName) ==
  IF origName = "li" THEN last(s.listStack) \o "li" ELSE origName

onclosetag(s, origName) ==
  LET s1 == IF origName = "ol" \/ origName = "ul"
            THEN [s EXCEPT !.listStack = pop(@)] ELSE s
      s2 == IF origName = "li" THEN [s1 EXCEPT !.trimNL = FALSE] ELSE s1
      name == closeName(s1, origName)
      t == lookup(s, name)
      s3 == IF t # Undefined THEN closeMapped(s2, name, t) ELSE closeUnmapped(s2, origName)
  IN IF s3.threw THEN s3 ELSE [s3 EXCEPT !.ignoreClose = FALSE]

-----------------------------------------------------------------------------
(* DrSax.prototype.write, after the parser has delivered its events.       *)

\* the returned string: the joined fragments with the whitespace clean-up
finalize(arr) == replaceAll(replaceAll(join(arr), "  ", " "), " \n", "\n")

-----------------------------------------------------------------------------
(* Parse events, as the parser's callbacks receive them.                   *)

Open(name, attrs) == [kind |-> "open", name |-> name, attrs |-> attrs, text |-> ""]
Text(text) == [kind |-> "text", name |-> "", attrs |-> <<>>, text |-> text]
Close(name) == [kind |-> "close", name |-> name, attrs |-> <<>>, text |-> ""]
NoEvent == [kind |-> "none", name |-> "", attrs |-> <<>>, text |-> ""]

\* a JavaScript value used as a condition
truthy(v) == v # Undefined /\ v # ""

\* html.replace(/\n/g, '').replace(/\t/g, ''): what write() does to its input
\* before the parser sees it
stripInput(html) == replaceAll(replaceAll(html, "\n", ""), "\t", "")

\* the render state after a step
Becomes(s) ==
  /\ stack' = s.stack
  /\ splicePos' = s.splicePos
  /\ spliceStack' = s.spliceStack
  /\ listStack' = s.listStack
  /\ trimNL' = s.trimNL
  /\ tagStack' = s.tagStack
  /\ ignoreClose' = s.ignoreClose
  /\ indentStack' = s.indentStack
  /\ tag' = s.tag
  /\ tagTable' = s.tagTable
  /\ options' = s.options
  /\ threw' = s.threw

\* after new DrSax(opts), before any write()
InitWith(Opts) ==
  \E o \in Opts :
    /\ stack = DrSax(o).stack
    /\ splicePos = DrSax(o).splicePos
    /\ spliceStack = DrSax(o).spliceStack
    /\ listStack = DrSax(o).listStack
    /\ trimNL = DrSax(o).trimNL
    /\ tagStack = DrSax(o).tagStack
    /\ ignoreClose = DrSax(o).ignoreClose
    /\ indentStack = DrSax(o).indentStack
    /\ tag = DrSax(o).tag
    /\ tagTable = DrSax(o).tagTable
    /\ options = DrSax(o).options
    /\ threw = FALSE
    /\ pc = "idle"
    /\ cur = Undefined
    /\ markdown = Undefined
    /\ runs = 0
    /\ nev = 0
    /\ evlog = <<>>
    /\ prev = [input |-> <<>>, output |-> Undefined, returned |-> FALSE,
               earlierInput |-> <<>>, earlierOutput |-> Undefined,
               earlierReturned |-> FALSE]
    /\ endTags = <<>>
    /\ synth = <<>>
    /\ hist = [ev |-> NoEvent, by |-> "none", before |-> DrSax(o), earlier |-> DrSax(o)]

\* the render state a call starts from: what the call before it left, whether
\* that call returned or raised
Entered == [State EXCEPT !.threw = FALSE]

\* write(html) is called: the parser starts on the input.  The render state is
\* what the last call left; nothing is reset here.
Write(maxRuns) ==
  /\ pc = "idle" /\ runs < maxRuns
  /\ pc' = "parsing"
  /\ threw' = FALSE
  /\ nev' = 0
  /\ evlog' = <<>>
  /\ endTags' = <<>>
  /\ synth' = <<>>
  /\ hist' = [ev |-> NoEvent, by |-> "none", before |-> Entered, earlier |-> Entered]
  /\ UNCHANGED <<stack, splicePos, spliceStack, listStack, trimNL, tagStack,
                 ignoreClose, indentStack, tag, tagTable, options, cur, markdown,
                 runs, prev>>

\* the parser may deliver e next.  A write() that follows one that returned is
\* given the input of that one again.
Delivers(e, maxEv) ==
  /\ pc = "parsing"
  /\ nev < maxEv
  /\ prev.returned => (nev < Len(prev.input) /\ prev.input[nev + 1] = e)

\* a TypeError leaves write(): nothing is returned and _init is not called
Thrown(input) ==
  /\ pc' = "idle"
  /\ cur' = Undefined
  /\ markdown' = Undefined
  /\ runs' = runs + 1
  /\ prev' = [input |-> input, output |-> Undefined, returned |-> FALSE,
              earlierInput |-> prev.input, earlierOutput |-> prev.output,
              earlierReturned |-> prev.returned]

\* a handler, called with e by `by`, has left the render state s
Handled(e, by, s) ==
  /\ Becomes(s)
  /\ nev' = nev + 1
  /\ evlog' = Append(evlog, e)
  /\ hist' = [ev |-> e, by |-> by, before |-> State, earlier |-> hist.before]
  /\ UNCHANGED <<endTags, synth>>

\* the parser has called a handler with e
Delivered(e, s) ==
  /\ Handled(e, "parser", s)
  /\ IF s.threw THEN Thrown(Append(evlog, e))
     ELSE UNCHANGED <<pc, cur, markdown, runs, prev>>

OpenTag(e, maxEv) ==
  /\ e.kind = "open" /\ Delivers(e, maxEv)
  /\ Delivered(e, onopentag(State, e.name, e.attrs))

\* a text of the input reaches ontext without its line breaks and tabs; the
\* parser has no text event for an empty text
TextNode(e, maxEv) ==
  /\ e.kind = "text" /\ stripInput(e.text) # ""
  /\ Delivers(Text(stripInput(e.text)), maxEv)
  /\ Delivered(Text(stripInput(e.text)), ontext(State, stripInput(e.text)))

CloseTag(e, maxEv) ==
  /\ e.kind = "close" /\ Delivers(e, maxEv)
  /\ Delivered(e, onclosetag(State, e.name))

\* the parser has ended; write() looks at this.tagStack and, if it is not empty,
\* enters _closeUnclosedTags, which pops the first tag
ParserEnd ==
  /\ pc = "parsing"
  /\ prev.returned => nev = Len(prev.input)
  /\ endTags' = tagStack
  /\ IF Len(tagStack) > 0
     THEN pc' = "closing" /\ cur' = last(tagStack) /\ tagStack' = pop(tagStack)
     ELSE pc' = "join" /\ UNCHANGED <<cur, tagStack>>
  /\ UNCHANGED <<stack, splicePos, spliceStack, listStack, trimNL, ignoreClose,
                 indentStack, tag, tagTable, options, threw, markdown, runs, nev,
                 evlog, prev, synth, hist>>

\* the render state after one turn of the loop of _closeUnclosedTags
closeTurn(s, name) ==
  LET s1 == onclosetag(s, name)
  IN IF s1.threw THEN s1 ELSE [s1 EXCEPT !.tagStack = pop(@)]

\* one turn of the loop of _closeUnclosedTags: onclosetag(tag), then the next pop
CloseUnclosed ==
  /\ pc = "closing" /\ truthy(cur)
  /\ Becomes(closeTurn(State, cur))
  /\ synth' = Append(synth, cur)
  /\ hist' = [ev |-> Close(cur), by |-> "closeUnclosed", before |-> State,
               earlier |-> hist.before]
  /\ IF closeTurn(State, cur).threw
     THEN Thrown(evlog)
     ELSE /\ cur' = last(onclosetag(State, cur).tagStack)
          /\ UNCHANGED <<pc, markdown, runs, prev>>
  /\ UNCHANGED <<nev, evlog, endTags>>

\* the loop of _closeUnclosedTags ends: the last pop returned nothing
CloseUnclosedDone ==
  /\ pc = "closing" /\ ~truthy(cur)
  /\ pc' = "join"
  /\ UNCHANGED <<stack, splicePos, spliceStack, listStack, trimNL, tagStack,
                 ignoreClose, indentStack, tag, tagTable, options, threw, cur,
                 markdown, runs, nev, evlog, prev, endTags, synth, hist>>

\* write() joins and cleans the fragments, resets the state and returns
Return ==
  /\ pc = "join"
  /\ markdown' = finalize(stack)
  /\ Becomes(init(State))
  /\ pc' = "idle"
  /\ cur' = Undefined
  /\ runs' = runs + 1
  /\ prev' = [input |-> evlog, output |-> finalize(stack), returned |-> TRUE,
               earlierInput |-> prev.input, earlierOutput |-> prev.output,
               earlierReturned |-> prev.returned]
  /\ UNCHANGED <<nev, evlog, endTags, synth, hist>>

\* the renderer fed events of E, at most maxEv a call, for maxRuns calls
Machine(E, maxEv, maxRuns) ==
  \/ Write(maxRuns)
  \/ \E e \in E : OpenTag(e, maxEv)
  \/ \E e \in E : TextNode(e, maxEv)
  \/ \E e \in E : CloseTag(e, maxEv)
  \/ ParserEnd
  \/ CloseUnclosed
  \/ CloseUnclosedDone
  \/ Return

\* a handler is called on the renderer itself, with no write() around it: its
\* argument is what the caller passes
Called(e, maxEv, s) ==
  /\ pc = "idle" /\ nev < maxEv
  /\ Handled(e, "caller", s)
  /\ UNCHANGED <<pc, cur, markdown, runs, prev>>

CallOpenTag(e, maxEv) ==
  /\ e.kind = "open"
  /\ Called(e, maxEv, onopentag(Entered, e.name, e.attrs))

CallText(e, maxEv) ==
  /\ e.kind = "text"
  /\ Called(e, maxEv, ontext(Entered, e.text))

CallCloseTag(e, maxEv) ==
  /\ e.kind = "close"
  /\ Called(e, maxEv, onclosetag(Entered, e.name))

\* the handlers called with events of E, at most maxEv calls
Handlers(E, maxEv) ==
  \/ \E e \in E : CallOpenTag(e, maxEv)
  \/ \E e \in E : CallText(e, maxEv)
  \/ \E e \in E : CallCloseTag(e, maxEv)

-----------------------------------------------------------------------------
(* The general specification: one write() over mixed markup.               *)

MaxEvents == 3

Href == <<<<"href", "u">>>>

Events ==
  {Open("b", <<>>), Open("a", Href), Open("p", <<>>), Open("blockquote", <<>>),
   Open("ol", <<>>), Open("li", <<>>), Open("span", <<>>), Open("constructor", <<>>),
   Close("b"), Close("a"), Close("p"), Close("blockquote"), Close("ol"),
   Close("li"), Close("span"), Close("constructor"), Text("t"), Text("\tt\n")}

Init == InitWith({DefaultOptions})

Next == Machine(Events, MaxEvents, 1)

Spec == Init /\ [][Next]_vars

\* The same renderer called again and again: after a write() that returned,
\* with the input of that one; after a write() that raised, with any input.
MaxRuns == 4

MaxReplayEvents == 2

ReplayEvents ==
  {Open("ol", <<>>), Open("b", <<>>), Open("constructor", <<>>), Close("b"),
   Close("constructor"), Text("t")}

ReplayNext == Machine(ReplayEvents, MaxReplayEvents, MaxRuns)

ReplaySpec == Init /\ [][ReplayNext]_vars

-----------------------------------------------------------------------------
(* Input that leaves tags open, also to the write() after it.  The loop of *)
(* _closeUnclosedTags is synchronous code: once entered it runs on, which  *)
(* is the fairness.                                                        *)

MaxLoopEvents == 3

MaxLoopRuns == 2

LoopEvents ==
  {Open("b", <<>>), Open("a", Href), Open("blockquote", <<>>), Open("ol", <<>>),
   Open("li", <<>>), Open("span", <<>>), Open("constructor", <<>>), Close("b"),
   Text("t")}

LoopNext == Machine(LoopEvents, MaxLoopEvents, MaxLoopRuns)

FairSpec ==
  Init /\ [][LoopNext]_vars /\ WF_vars(CloseUnclosed) /\ WF_vars(CloseUnclosedDone)


-----------------------------------------------------------------------------
(* Anchors and images: the tags with attribute rules.                      *)

MaxAnchorEvents == 4

AnchorEvents ==
  {Open("a", <<<<"href", "u">>>>), Open("a", <<<<"title", "t">>, <<"href", "v">>>>),
   Open("a", <<>>),
   Open("img", <<<<"src", "s">>, <<"alt", "d">>>>),
   Open("img", <<<<"alt", "d">>, <<"src", "s">>>>),
   Open("img", <<<<"src", "s">>>>),
   Text("x"), Text("y z"), Close("a"), Close("img")}

AnchorNext == Machine(AnchorEvents, MaxAnchorEvents, 1)

AnchorSpec == Init /\ [][AnchorNext]_vars


-----------------------------------------------------------------------------
(* Block level tags, with and without an indenting tag around them.        *)

MaxBlockEvents == 4

BlockEvents ==
  {Open("p", <<>>), Open("blockquote", <<>>), Open("code", <<>>), Open("ol", <<>>),
   Open("b", <<>>),
   Close("p"), Close("blockquote"), Close("code"), Close("ol"), Close("b"),
   Text("t")}

BlockNext == Machine(BlockEvents, MaxBlockEvents, 1)

BlockSpec == Init /\ [][BlockNext]_vars

-----------------------------------------------------------------------------
(* Paragraphs of text with spaces in it.                                   *)

MaxSpaceEvents == 4

SpaceEvents == {Open("p", <<>>), Close("p"), Text("a"), Text(" "), Text("a   ")}

SpaceNext == Machine(SpaceEvents, MaxSpaceEvents, 1)

SpaceSpec == Init /\ [][SpaceNext]_vars

-----------------------------------------------------------------------------
(* Headings.                                                               *)

MaxHeadingEvents == 6

HeadingEvents ==
  {Open("h1", <<>>), Open("h2", <<>>), Open("h6", <<>>),
   Close("h1"), Close("h2"), Close("h6"), Text("test")}

HeadingNext == Machine(HeadingEvents, MaxHeadingEvents, 1)

HeadingSpec == Init /\ [][HeadingNext]_vars

-----------------------------------------------------------------------------
(* Lists of both kinds, their items, and items within items.               *)

MaxListEvents == 6

ListEvents ==
  {Open("ol", <<>>), Open("ul", <<>>), Open("li", <<>>),
   Close("ol"), Close("ul"), Close("li"), Text("t")}

ListNext == Machine(ListEvents, MaxListEvents, 1)

ListSpec == Init /\ [][ListNext]_vars

-----------------------------------------------------------------------------
(* Tags inside an anchor, whose text is spliced in behind its "[".         *)

MaxDeferEvents == 5

DeferEvents ==
  {Open("a", Href), Open("b", <<>>), Open("img", <<<<"src", "s">>>>),
   Close("a"), Close("b"), Text("x"), Text("y")}

DeferNext == Machine(DeferEvents, MaxDeferEvents, 1)

DeferSpec == Init /\ [][DeferNext]_vars

\* The same tags, also on a renderer whose last write() raised an error.
MaxSpliceEvents == 4

MaxSpliceRuns == 2

SpliceEvents ==
  {Open("a", Href), Open("b", <<>>), Open("constructor", <<>>), Close("a"),
   Close("b"), Text("x")}

SpliceNext == Machine(SpliceEvents, MaxSpliceEvents, MaxSpliceRuns)

SpliceSpec == Init /\ [][SpliceNext]_vars

-----------------------------------------------------------------------------
(* Code blocks: <pre> and <code>, each around the other.                   *)

MaxCodeEvents == 4

CodeEvents ==
  {Open("pre", <<>>), Open("code", <<>>), Close("pre"), Close("code"), Text("t")}

CodeNext == Machine(CodeEvents, MaxCodeEvents, 1)

CodeSpec == Init /\ [][CodeNext]_vars

-----------------------------------------------------------------------------
(* Text with line breaks in it.  write() takes the line breaks out of its  *)
(* input, so such a text reaches ontext only from a caller of the handlers. *)

MaxTextEvents == 4

TextEvents ==
  {Open("li", <<>>), Close("li"), Open("p", <<>>), Close("p"),
   Text("t"), Text("\n"), Text("t\n")}

TextNext == Handlers(TextEvents, MaxTextEvents)

TextSpec == Init /\ [][TextNext]_vars

-----------------------------------------------------------------------------
(* Tags the dialect does not define, with and without the stripTags option, *)
(* under the default dialect and under one passed to the constructor.      *)

MaxUnmappedEvents == 3

UnmappedEvents ==
  {Open("span", <<<<"class", "c">>>>), Close("span"), Open("li", <<>>), Close("li"),
   Open("constructor", <<>>), Close("constructor"), Open("b", <<>>), Close("b"),
   Open("a", Href), Open("ol", <<>>), Open("blockquote", <<>>), Text("t")}

\* new DrSax({dialect: {b: {open: '__', close: '__'}}})
CustomDialect == [n \in {"b"} |-> TagSpec("__", "__", FALSE, "", <<>>)]

\* a dialect option that is no object is not taken
UnmappedOptions ==
  {Options(FALSE, FALSE, defaultDialect), Options(TRUE, FALSE, defaultDialect),
   Options(FALSE, TRUE, CustomDialect), Options(TRUE, TRUE, CustomDialect),
   Options(FALSE, FALSE, CustomDialect)}

UnmappedInit == InitWith(UnmappedOptions)

UnmappedNext == Machine(UnmappedEvents, MaxUnmappedEvents, 1)

UnmappedSpec == UnmappedInit /\ [][UnmappedNext]_vars

-----------------------------------------------------------------------------
(* Properties.                                                             *)

RECURSIVE Reverse(_)
Reverse(arr) == IF Len(arr) = 0 THEN <<>> ELSE Append(Reverse(Tail(arr)), Head(arr))

\* C1: when write() has returned, every field of the render state has its
\* initial value, and a second write() of the same events returns the same
\* string as the first.
IdempotentReset ==
  (pc = "idle" /\ prev.returned) =>
    /\ stack = <<>> /\ tagStack = <<>> /\ listStack = <<>> /\ indentStack = <<>>
    /\ spliceStack = <<>> /\ splicePos = 0 /\ trimNL = FALSE /\ ignoreClose = FALSE
    /\ tag = Undefined
    /\ (prev.earlierReturned /\ prev.input = prev.earlierInput) =>
         prev.output = prev.earlierOutput

\* C2: at the end of the input one close is synthesized for each tag still on
\* this.tagStack, most recently opened first.
SynthClosesMatchOpenTags ==
  pc = "join" => (Len(synth) = Len(endTags) /\ synth = Reverse(endTags))

\* C3: the end of input processing ends, with this.tagStack empty, and no
\* close that _closeUnclosedTags makes raises an error.
ForceCloseTerminates ==
  /\ [](pc = "join" => tagStack = <<>>)
  /\ [](hist.by = "closeUnclosed" => ~threw)
  /\ (pc = "closing") ~> (pc = "join")

\* the last handler call was onclosetag with a name that, made effective, is
\* not the top of this.tagStack
MismatchedClose ==
  /\ hist.ev.kind = "close"
  /\ \/ hist.by = "parser" /\ (pc = "parsing" \/ threw)
     \/ hist.by = "closeUnclosed" /\ (pc \in {"closing", "join"} \/ threw)
  /\ closeName(hist.before, hist.ev.name) # last(hist.before.tagStack)

\* C4: a close whose effective name is not the top of this.tagStack (or that
\* finds it empty) leaves this.tagStack as it was and raises nothing.  After a
\* close that _closeUnclosedTags made, its loop has popped the next tag.
MismatchedCloseKeepsTagStack ==
  MismatchedClose =>
    /\ ~threw
    /\ hist.by = "parser" => tagStack = hist.before.tagStack
    /\ hist.by = "closeUnclosed" => tagStack = pop(hist.before.tagStack)

\* the last k elements of an array
Suffix(arr, k) == SubSeq(arr, Len(arr) - k + 1, Len(arr))

\* the index of the last event of log[1..n-1] that is no text event, or 0
LastTagEvent(log) ==
  LET K == {k \in 1..(Len(log) - 1) : log[k].kind # "text"}
  IN IF K = {} THEN 0 ELSE CHOOSE k \in K : \A j \in K : j <= k

\* log ends with open(a, {href}), one or more text events, close(a)
AnchorRun(log) ==
  LET n == Len(log)
      k == LastTagEvent(log)
  IN /\ n >= 3 /\ k >= 1 /\ n - k >= 2
     /\ log[n] = Close("a")
     /\ log[k].kind = "open" /\ log[k].name = "a" /\ hasKey(log[k].attrs, "href")

\* the text events of that run, in arrival order
AnchorTexts(log) ==
  [i \in 1..(Len(log) - 1 - LastTagEvent(log)) |-> log[LastTagEvent(log) + i].text]

\* the fragments the claim expects of that run
AnchorFragments(log) ==
  <<"[">> \o AnchorTexts(log)
          \o <<"]", "(", valueOf(log[LastTagEvent(log)].attrs, "href"), ")">>

\* C5: after open(a, {href: H}), text events and close(a), the output ends
\* with "[", the texts in arrival order, "](", H, ")"; it is exactly that when
\* nothing came before, and write() then returns it, whitespace cleaned.
AnchorTextBeforeHref ==
  /\ (pc = "parsing" /\ AnchorRun(evlog)) =>
       /\ Len(stack) >= Len(AnchorFragments(evlog))
       /\ Suffix(stack, Len(AnchorFragments(evlog))) = AnchorFragments(evlog)
       /\ LastTagEvent(evlog) = 1 =>
            join(stack) = "[" \o join(AnchorTexts(evlog)) \o "]("
                              \o valueOf(evlog[1].attrs, "href") \o ")"
  /\ (pc = "idle" /\ runs > 0 /\ AnchorRun(prev.input) /\ LastTagEvent(prev.input) = 1) =>
       markdown = finalize(AnchorFragments(prev.input))

\* an anchor with two different text events has been closed and returned
AnchorTextBeforeHrefWitness ==
  /\ pc = "idle" /\ runs > 0
  /\ prev.input = <<Open("a", <<<<"href", "u">>>>), Text("x"), Text("y z"), Close("a")>>
  /\ markdown = "[xy z](u)"

\* the fragments the claim expects of the attribute rules of a tag
RECURSIVE AttrFragments(_, _)
AttrFragments(rules, attrs) ==
  IF Len(rules) = 0 THEN <<>>
  ELSE <<rules[1].open>>
       \o (IF rules[1].key # "text" /\ hasKey(attrs, rules[1].key)
           THEN <<valueOf(attrs, rules[1].key)>> ELSE <<>>)
       \o <<rules[1].close>>
       \o AttrFragments(Tail(rules), attrs)

\* the last handler call was onopentag of a mapped tag with attribute rules
OpenWithAttrs ==
  /\ pc = "parsing" /\ hist.ev.kind = "open"
  /\ lookup(State, openName(hist.before, hist.ev.name)) # Undefined
  /\ Len(tagTable[openName(hist.before, hist.ev.name)].attrs) > 0

\* C6: the open of a tag with attribute rules appends, in the dialect's key
\* order, each rule's open marker, the event's value if the event has the key
\* (and the key is not text), and the close marker.  An img with src S and alt A
\* outside a deferring tag and outside an indenting tag adds "![" A "](" S ")".
AttrsInDialectOrder ==
  OpenWithAttrs =>
    LET rules == tagTable[openName(hist.before, hist.ev.name)].attrs
        frags == AttrFragments(rules, hist.ev.attrs)
    IN /\ Len(stack) >= Len(frags)
       /\ Suffix(stack, Len(frags)) = frags
       /\ (/\ hist.ev.name = "img"
           /\ hasKey(hist.ev.attrs, "src") /\ hasKey(hist.ev.attrs, "alt")
           /\ Len(hist.before.spliceStack) = 0
           /\ Len(hist.before.indentStack) = 0) =>
            join(stack) = join(hist.before.stack) \o "![" \o valueOf(hist.ev.attrs, "alt")
                            \o "](" \o valueOf(hist.ev.attrs, "src") \o ")"

\* an img whose event lists src before alt has been opened, alone
AttrsInDialectOrderWitness ==
  /\ OpenWithAttrs
  /\ evlog = <<Open("img", <<<<"src", "s">>, <<"alt", "d">>>>)>>
  /\ join(stack) = "![d](s)"

\* name is a block level tag of the dialect
isBlock(name) == lookup(State, name) # Undefined /\ entry(State, name).block

\* the number of separator fragments in an array
Separators(arr) == Cardinality({i \in 1..Len(arr) : arr[i] \in {"\n\n", "\n"}})

\* the last two handler calls were the close of the open block level tag and,
\* right after it, the open of a block level tag
BlockSiblings ==
  /\ pc = "parsing" /\ Len(evlog) >= 2
  /\ last(hist.earlier.tagStack) = evlog[Len(evlog) - 1].name
  /\ hist.ev.kind = "open" /\ isBlock(hist.ev.name)
  /\ evlog[Len(evlog) - 1].kind = "close" /\ isBlock(evlog[Len(evlog) - 1].name)

\* C7: outside an indenting tag, the close of a block level tag and the open of
\* the next put exactly one separator between them, the "\n\n" of the close:
\* the open adds none.
OneBlankLineBetweenBlocks ==
  (BlockSiblings /\ Len(hist.before.indentStack) = 0) =>
    /\ last(hist.before.stack) = "\n\n"
    /\ Separators(stack) = Separators(hist.earlier.stack) + 1
    /\ Len(spliceStack) = 0 =>
         join(stack) = join(hist.earlier.stack)
                         \o tagTable[evlog[Len(evlog) - 1].name].close \o "\n\n"
                         \o tagTable[hist.ev.name].open

\* a paragraph with text was closed and a code block opened right after it
OneBlankLineBetweenBlocksWitness ==
  /\ BlockSiblings /\ Len(hist.before.indentStack) = 0
  /\ evlog = <<Open("p", <<>>), Text("t"), Close("p"), Open("code", <<>>)>>
  /\ join(stack) = "t\n\n" \o BQ \o BQ \o BQ \o "\n"

\* C8: inside an indenting tag, the close of a block level tag and the open of
\* the next put exactly one line break between them.
OneLineBreakBetweenNestedBlocks ==
  (BlockSiblings /\ Len(hist.before.indentStack) > 0) =>
    /\ last(hist.before.stack) = "\n"
    /\ Separators(stack) = Separators(hist.earlier.stack) + 1

\* s has pat in it
Contains(s, pat) == \E i \in 1..(Len(s) - Len(pat) + 1) : SubSeq(s, i, i + Len(pat) - 1) = pat

\* C9: the string write() returns has no space right before a line break.
NoSpaceBeforeLineBreak ==
  (pc = "idle" /\ runs > 0) => ~Contains(markdown, " \n")

\* the level of a heading tag
HeadingLevel(name) ==
  CASE name = "h1" -> 1 [] name = "h2" -> 2 [] name = "h3" -> 3
    [] name = "h4" -> 4 [] name = "h5" -> 5 [] name = "h6" -> 6 [] OTHER -> 0

\* log is a sequence of heading elements: open(hN), text, close(hN)
HeadingDocument(log) ==
  /\ Len(log) > 0 /\ Len(log) % 3 = 0
  /\ \A j \in 0..((Len(log) \div 3) - 1) :
       /\ log[3 * j + 1].kind = "open" /\ HeadingLevel(log[3 * j + 1].name) > 0
       /\ log[3 * j + 2].kind = "text"
       /\ log[3 * j + 3] = Close(log[3 * j + 1].name)

\* what the claim expects of such a document
RECURSIVE HeadingMarkdown(_)
HeadingMarkdown(log) ==
  IF Len(log) = 0 THEN ""
  ELSE repeat("#", HeadingLevel(log[1].name)) \o " " \o log[2].text \o "\n\n"
       \o HeadingMarkdown(SubSeq(log, 4, Len(log)))

\* C10: a heading hN with text T renders as N "#", a space, T and "\n\n".
HeadingsRender ==
  (pc = "idle" /\ runs > 0 /\ HeadingDocument(prev.input)) =>
    markdown = HeadingMarkdown(prev.input)

\* C11: after every handler call, those _closeUnclosedTags makes included,
\* this.tagStack is at least as long as this.indentStack.
TagStackCoversIndentStack ==
  /\ pc # "closing" => (Len(tagStack) >= Len(indentStack) /\ Len(indentStack) >= 0)
  /\ hist.by = "closeUnclosed" =>
       LET s == onclosetag(hist.before, hist.ev.name)
       IN Len(s.tagStack) >= Len(s.indentStack) /\ Len(s.indentStack) >= 0

\* arr has an element equal to x
Has(arr, x) == \E i \in 1..Len(arr) : arr[i] = x

\* the last handler call was onclosetag of a list container, from the parser
ListClose ==
  /\ pc = "parsing" /\ hist.by = "parser"
  /\ hist.ev.kind = "close" /\ hist.ev.name \in {"ol", "ul"}

\* C12: the close of a list container removes from this.listStack only an entry
\* of its own kind, and none when no list of its kind is open.
ListCloseRemovesItsOwnEntry ==
  ListClose =>
    /\ last(hist.before.listStack) # hist.ev.name => listStack = hist.before.listStack
    /\ ~Has(hist.before.tagStack, hist.ev.name) => listStack = hist.before.listStack
    /\ listStack # hist.before.listStack => listStack = pop(hist.before.listStack)

\* C13: while this.spliceStack is not empty this.splicePos is an index of
\* this.stack, and no step that leaves this.spliceStack non-empty lowers it.
SplicePosValidAndRising ==
  /\ [](Len(spliceStack) > 0 => (0 <= splicePos /\ splicePos <= Len(stack)))
  /\ [][(Len(spliceStack) > 0 /\ Len(spliceStack') > 0) => splicePos' >= splicePos]_vars

\* inside an anchor inside an anchor, a text has been spliced in and the
\* cursor moved on
SplicePosValidAndRisingWitness ==
  /\ pc = "parsing" /\ hist.ev.kind = "text"
  /\ Len(hist.before.spliceStack) >= 2 /\ Len(spliceStack) >= 2
  /\ splicePos = hist.before.splicePos + 1
  /\ hist.before.splicePos > hist.earlier.splicePos

\* the last handler call was onopentag of <code> with <pre> the innermost open
\* tag and the marker of <pre> the last fragment
CodeInsidePre ==
  /\ pc = "parsing" /\ hist.by = "parser"
  /\ hist.ev.kind = "open" /\ hist.ev.name = "code"
  /\ last(hist.before.tagStack) = "pre"
  /\ last(hist.before.stack) = tagTable["pre"].open

\* C14: <code> opened directly inside <pre> sets this.ignoreClose and takes the
\* marker of <pre> off this.stack.
PreCodeCollapse ==
  CodeInsidePre =>
    /\ ignoreClose
    /\ SubSeq(stack, 1, Len(hist.before.stack) - 1) = pop(hist.before.stack)
    /\ Len(stack) >= Len(hist.before.stack) =>
         stack[Len(hist.before.stack)] # tagTable["pre"].open

\* the last handler call was onclosetag, from the parser, of the innermost open
\* tag, a tag with a close marker, while a tag was deferring its text
DeferredClose ==
  /\ pc = "parsing" /\ hist.by = "parser" /\ ~threw
  /\ hist.ev.kind = "close"
  /\ last(hist.before.tagStack) = closeName(hist.before, hist.ev.name)
  /\ closeName(hist.before, hist.ev.name) \in DOMAIN tagTable
  /\ Len(tagTable[closeName(hist.before, hist.ev.name)].close) > 0
  /\ ~hist.before.ignoreClose
  /\ Len(hist.before.spliceStack) > 0

\* C15: such a close puts its marker at this.splicePos and moves
\* this.splicePos on by one.
DeferredCloseAdvancesCursor ==
  DeferredClose =>
    /\ stack = splice(hist.before.stack, hist.before.splicePos,
                      tagTable[closeName(hist.before, hist.ev.name)].close)
    /\ splicePos = hist.before.splicePos + 1

\* the last handler call was ontext while no tag was deferring its text
PlainText ==
  /\ (pc = "parsing" /\ hist.by = "parser") \/ hist.by = "caller"
  /\ ~threw
  /\ hist.ev.kind = "text"
  /\ Len(hist.before.spliceStack) = 0

\* C16: such a text is appended with its line breaks stripped if this.trimNL
\* is set, or if it is exactly one line break and the fragment before it ends in
\* one; it is appended as it is otherwise.
TextLineBreaksStripped ==
  PlainText =>
    LET strip == \/ hist.before.trimNL
                 \/ /\ hist.ev.text = "\n"
                    /\ Len(stack) >= 2
                    /\ endsInNL(stack[Len(stack) - 1])
    IN /\ Len(stack) >= 1
       /\ last(stack) = IF strip THEN stripNL(hist.ev.text) ELSE hist.ev.text

\* what OpenNames gives for a log that is not well nested
Mismatch == <<"">>

\* the names of the tags a log leaves open, outermost first, if every close in
\* it closes the innermost open tag and every item is opened right inside a list
RECURSIVE OpenNames(_)
OpenNames(log) ==
  IF Len(log) = 0 THEN <<>>
  ELSE LET open == OpenNames(SubSeq(log, 1, Len(log) - 1))
           e == log[Len(log)]
       IN IF open = Mismatch THEN Mismatch
          ELSE IF e.kind = "text" THEN open
          ELSE IF e.kind = "open"
               THEN IF e.name = "li" /\ last(open) \notin {"ol", "ul"} THEN Mismatch
                    ELSE Append(open, e.name)
               ELSE IF last(open) = e.name THEN pop(open) ELSE Mismatch

\* C17: in a well nested document this.trimNL is set at every text event that
\* arrives while an item is open, and is not set while no item is open.
TrimWhileItemOpen ==
  (pc = "parsing" /\ OpenNames(evlog) # Mismatch) =>
    /\ (hist.ev.kind = "text" /\ Has(OpenNames(evlog), "li")) => trimNL
    /\ ~Has(OpenNames(evlog), "li") => ~trimNL

\* the effective name of the last event
EffectiveName ==
  IF hist.ev.kind = "open" THEN openName(hist.before, hist.ev.name)
  ELSE closeName(hist.before, hist.ev.name)

\* the last handler call was onopentag or onclosetag, from the parser, with an
\* effective name that is no key of the dialect
UnmappedEvent ==
  /\ hist.by = "parser" /\ (pc = "parsing" \/ threw)
  /\ hist.ev.kind \in {"open", "close"}
  /\ EffectiveName \notin DOMAIN tagTable

\* the literal tag of the last event
LiteralTag ==
  IF hist.ev.kind = "open" THEN rebuildTag(hist.ev.name, hist.ev.attrs, "open")
  ELSE rebuildTag(hist.ev.name, <<>>, Undefined)

\* C18: an open or close with a name the dialect does not define raises
\* nothing and changes no field but this.stack, to which it appends the literal
\* tag unless options.stripTags is set.
UnmappedChangesOnlyOutput ==
  UnmappedEvent =>
    /\ ~threw
    /\ tagStack = hist.before.tagStack
    /\ listStack = hist.before.listStack
    /\ indentStack = hist.before.indentStack
    /\ spliceStack = hist.before.spliceStack
    /\ splicePos = hist.before.splicePos
    /\ trimNL = hist.before.trimNL
    /\ ignoreClose = hist.before.ignoreClose
    /\ stack = IF options.stripTags THEN hist.before.stack
               ELSE Append(hist.before.stack, LiteralTag)

\* the handler the parser calls for an event
handle(s, e) ==
  CASE e.kind = "open" -> onopentag(s, e.name, e.attrs)
    [] e.kind = "text" -> ontext(s, e.text)
    [] OTHER -> onclosetag(s, e.name)

\* the render state of a fresh write() after the events of log
RECURSIVE StateAfter(_)
StateAfter(log) ==
  IF Len(log) = 0 THEN DrSax(options)
  ELSE handle(StateAfter(SubSeq(log, 1, Len(log) - 1)), log[Len(log)])

\* the index of the open that the close at the end of a well nested log closes
MatchingOpen(log) ==
  CHOOSE k \in 1..(Len(log) - 1) :
    /\ log[k].kind = "open" /\ log[k].name = log[Len(log)].name
    /\ OpenNames(SubSeq(log, 1, k - 1)) = OpenNames(log)
    /\ \A j \in (k + 1)..(Len(log) - 1) :
         Len(OpenNames(SubSeq(log, 1, j))) > Len(OpenNames(log))

\* the last handler call was onclosetag, from the parser, and closed the
\* innermost open tag of a well nested log
NestedClose ==
  /\ pc = "parsing" /\ hist.by = "parser" /\ ~threw
  /\ hist.ev.kind = "close"
  /\ OpenNames(evlog) # Mismatch

\* C19: in a well nested document the close of a tag leaves this.indentStack
\* as it was just before the open of that tag.
IndentRestoredByClose ==
  NestedClose =>
    indentStack = StateAfter(SubSeq(evlog, 1, MatchingOpen(evlog) - 1)).indentStack

\* how many fragments of an array equal x
Occurrences(arr, x) == Cardinality({i \in 1..Len(arr) : arr[i] = x})

\* the tag of the dialect has a block flag and an open marker that is not empty
BlockWithMarker(t) == t \in DOMAIN tagTable /\ tagTable[t].block /\ Len(tagTable[t].open) > 0

\* C20: the open of a block level tag writes the tag's open marker once, and a
\* text event writes its text and no marker, whether it is the first text in the
\* tag, a later one, or one that arrives after the tag is closed.
BlockMarkerWrittenOnce ==
  (pc = "parsing" /\ hist.by = "parser" /\ ~threw) =>
    /\ (/\ hist.ev.kind = "open" /\ BlockWithMarker(hist.ev.name)
        /\ Len(hist.before.indentStack) = 0) =>
         Occurrences(stack, tagTable[hist.ev.name].open)
           = Occurrences(hist.before.stack, tagTable[hist.ev.name].open) + 1
    /\ (hist.ev.kind = "text" /\ BlockWithMarker(hist.before.tag)) =>
         /\ Len(stack) = Len(hist.before.stack) + 1
         /\ Occurrences(stack, tagTable[hist.before.tag].open)
              = Occurrences(hist.before.stack, tagTable[hist.before.tag].open)

====
